---------------------------- MODULE Spec2Model ----------------------------
(***************************************************************************)
(* A model of MacAddress.py: the MAC validator/normaliser, the property    *)
(* analyser, the automaton builder and layout of draw_nfa_diagram, the     *)
(* canvas sizing and the interactive session of main().                    *)
(*                                                                         *)
(* A Python str is modelled as a sequence of one-character strings, so     *)
(* that matching, stripping, splitting and joining are computed character  *)
(* by character as the code computes them.                                 *)
(***************************************************************************)
EXTENDS Integers, Sequences, FiniteSets

(***************************************************************************)
(* Characters and the str methods the program uses.                        *)
(***************************************************************************)

\* The character class [0-9A-Fa-f] of the three patterns and of normalize_mac.
HexDigit ==
    {"0", "1", "2", "3", "4", "5", "6", "7", "8", "9",
     "A", "B", "C", "D", "E", "F", "a", "b", "c", "d", "e", "f"}

\* The character class [:-] of the first pattern.
ColonOrHyphen == {":", "-"}

\* The one-character class \. of the second pattern.
Dot == {"."}

\* What str.strip() removes at both ends (the ASCII whitespace that occurs here).
Whitespace == {" ", "\t", "\n", "\r"}

\* str.upper() on one character.
UpperChar(c) ==
    CASE c = "a" -> "A" [] c = "b" -> "B" [] c = "c" -> "C" [] c = "d" -> "D"
      [] c = "e" -> "E" [] c = "f" -> "F" [] c = "g" -> "G" [] c = "q" -> "Q"
      [] c = "u" -> "U" [] c = "i" -> "I" [] c = "t" -> "T" [] c = "y" -> "Y"
      [] c = "s" -> "S" [] c = "n" -> "N" [] c = "o" -> "O"
      [] OTHER -> c

\* str.lower() on one character.
LowerChar(c) ==
    CASE c = "A" -> "a" [] c = "B" -> "b" [] c = "C" -> "c" [] c = "D" -> "d"
      [] c = "E" -> "e" [] c = "F" -> "f" [] c = "G" -> "g" [] c = "Q" -> "q"
      [] c = "U" -> "u" [] c = "I" -> "i" [] c = "T" -> "t" [] c = "Y" -> "y"
      [] c = "S" -> "s" [] c = "N" -> "n" [] c = "O" -> "o"
      [] OTHER -> c

upper(s) == [i \in 1..Len(s) |-> UpperChar(s[i])]

lower(s) == [i \in 1..Len(s) |-> LowerChar(s[i])]

RECURSIVE lstrip(_)
lstrip(s) ==
    IF s # << >> /\ Head(s) \in Whitespace THEN lstrip(Tail(s)) ELSE s

RECURSIVE rstrip(_)
rstrip(s) ==
    IF s # << >> /\ s[Len(s)] \in Whitespace
    THEN rstrip(SubSeq(s, 1, Len(s) - 1))
    ELSE s

strip(s) == rstrip(lstrip(s))

\* s.split(sep) for a one-character separator: always at least one piece.
RECURSIVE split(_, _)
split(s, sep) ==
    IF \E i \in 1..Len(s) : s[i] = sep
    THEN LET i == CHOOSE k \in 1..Len(s) :
                      s[k] = sep /\ \A j \in 1..(k - 1) : s[j] # sep
         IN  <<SubSeq(s, 1, i - 1)>> \o split(SubSeq(s, i + 1, Len(s)), sep)
    ELSE <<s>>

\* sep.join(parts)
RECURSIVE join(_, _)
join(parts, sep) ==
    IF parts = << >> THEN << >>
    ELSE IF Len(parts) = 1 THEN parts[1]
    ELSE parts[1] \o <<sep>> \o join(Tail(parts), sep)

\* s.count(c)
count(s, c) == Cardinality({i \in 1..Len(s) : s[i] = c})

\* s.replace(c, "")
RECURSIVE remove(_, _)
remove(s, c) ==
    IF s = << >> THEN << >>
    ELSE IF Head(s) = c THEN remove(Tail(s), c)
    ELSE <<Head(s)>> \o remove(Tail(s), c)

\* int(c, 16) for one hex digit.
HexValue(c) ==
    CASE c = "0" -> 0 [] c = "1" -> 1 [] c = "2" -> 2 [] c = "3" -> 3
      [] c = "4" -> 4 [] c = "5" -> 5 [] c = "6" -> 6 [] c = "7" -> 7
      [] c = "8" -> 8 [] c = "9" -> 9
      [] c \in {"A", "a"} -> 10 [] c \in {"B", "b"} -> 11
      [] c \in {"C", "c"} -> 12 [] c \in {"D", "d"} -> 13
      [] c \in {"E", "e"} -> 14 [] c \in {"F", "f"} -> 15

\* int(s, 16) for a non-empty string of hex digits (int('', 16) raises).
RECURSIVE int16(_)
int16(s) ==
    IF Len(s) <= 1 THEN HexValue(s[1])
    ELSE 16 * int16(SubSeq(s, 1, Len(s) - 1)) + HexValue(s[Len(s)])

\* str(n) for n >= 0, as the f-string of the file name formats it.
DecimalDigit(d) ==
    CASE d = 0 -> "0" [] d = 1 -> "1" [] d = 2 -> "2" [] d = 3 -> "3"
      [] d = 4 -> "4" [] d = 5 -> "5" [] d = 6 -> "6" [] d = 7 -> "7"
      [] d = 8 -> "8" [] d = 9 -> "9"

RECURSIVE str(_)
str(n) ==
    IF n < 10 THEN <<DecimalDigit(n)>>
    ELSE str(n \div 10) \o <<DecimalDigit(n % 10)>>

(***************************************************************************)
(* is_valid_mac: re.match of three anchored patterns.                      *)
(***************************************************************************)

\* n copies of the sequence of character classes p.
RECURSIVE Repeat(_, _)
Repeat(p, n) == IF n = 0 THEN << >> ELSE p \o Repeat(p, n - 1)

\* ([0-9A-Fa-f]{2}[:-]){5}([0-9A-Fa-f]{2})
ColonPattern ==
    Repeat(<<HexDigit, HexDigit, ColonOrHyphen>>, 5) \o <<HexDigit, HexDigit>>

\* ([0-9A-Fa-f]{4}\.){2}([0-9A-Fa-f]{4})
DotPattern ==
    Repeat(Repeat(<<HexDigit>>, 4) \o <<Dot>>, 2) \o Repeat(<<HexDigit>>, 4)

\* ([0-9A-Fa-f]{12})
BarePattern == Repeat(<<HexDigit>>, 12)

mac_patterns == <<ColonPattern, DotPattern, BarePattern>>

\* Python's $ without re.MULTILINE: at the end of the string, or just before
\* a newline that is the last character of the string.
AtDollar(s, pos) ==
    \/ pos = Len(s)
    \/ pos = Len(s) - 1 /\ s[Len(s)] = "\n"

\* re.match(r'^...$', s): the classes match the first characters one by one
\* (every class has a fixed width, so there is a single way to match) and $
\* holds where they end.
re_match(pattern, s) ==
    /\ Len(s) >= Len(pattern)
    /\ \A i \in 1..Len(pattern) : s[i] \in pattern[i]
    /\ AtDollar(s, Len(pattern))

is_valid_mac(mac) ==
    \E p \in 1..Len(mac_patterns) : re_match(mac_patterns[p], mac)

(***************************************************************************)
(* normalize_mac                                                           *)
(***************************************************************************)

\* re.sub(r'[^0-9A-Fa-f]', '', mac)
RECURSIVE clean_mac(_)
clean_mac(mac) ==
    IF mac = << >> THEN << >>
    ELSE IF Head(mac) \in HexDigit THEN <<Head(mac)>> \o clean_mac(Tail(mac))
    ELSE clean_mac(Tail(mac))

\* [clean[i:i + 2] for i in range(0, len(clean), 2)]
RECURSIVE Pairs(_)
Pairs(clean) ==
    IF clean = << >> THEN << >>
    ELSE IF Len(clean) = 1 THEN <<clean>>
    ELSE <<SubSeq(clean, 1, 2)>> \o Pairs(SubSeq(clean, 3, Len(clean)))

\* normalize_mac without the final .upper()
normalize_mac_keeps_case(mac) == join(Pairs(clean_mac(mac)), ":")

normalize_mac(mac) == upper(join(Pairs(clean_mac(mac)), ":"))

(***************************************************************************)
(* analyze_mac and the vendor lookup collaborator                          *)
(***************************************************************************)

\* None, and Python's truth test of an Optional[str].
None == <<"<None>">>

Truthy(v) == v # None /\ v # << >>

\* x & y on non-negative integers.
RECURSIVE BitAnd(_, _)
BitAnd(x, y) ==
    IF x = 0 \/ y = 0 THEN 0
    ELSE 2 * BitAnd(x \div 2, y \div 2) + (IF x % 2 = 1 /\ y % 2 = 1 THEN 1 ELSE 0)

\* A vendor name the lookup may return.
Acme == <<"A", "c", "m", "e">>

Unknown == <<"U", "n", "k", "n", "o", "w", "n">>

\* What MacLookup() and lookup.lookup(mac) can do: return a vendor name,
\* raise one of the two exceptions the except clause names, raise anything
\* else (the library's InvalidMacError, an OSError of its vendor file or
\* download), or fail already while MacLookup() is constructed.
LookupOutcomes ==
    {"vendor", "VendorNotFoundError", "ValueError", "OtherError", "ConstructorError"}

\* The outcomes in which the collaborator fails.
LookupFailures == LookupOutcomes \ {"vendor"}

\* except (VendorNotFoundError, ValueError)
CaughtByExcept == {"VendorNotFoundError", "ValueError"}

\* analyze_mac with the two bit masks exchanged
analyze_mac_masks_swapped(mac, outcome) ==
    LET first_octet == int16(split(mac, ":")[1])
        is_unicast  == BitAnd(first_octet, 2) = 0
        is_global   == BitAnd(first_octet, 1) = 0
    IN  IF outcome = "vendor"
        THEN [raised |-> FALSE, is_unicast |-> is_unicast,
              is_global |-> is_global, vendor |-> Acme]
        ELSE IF outcome \in CaughtByExcept
        THEN [raised |-> FALSE, is_unicast |-> is_unicast,
              is_global |-> is_global, vendor |-> Unknown]
        ELSE [raised |-> TRUE, is_unicast |-> is_unicast,
              is_global |-> is_global, vendor |-> None]

\* analyze_mac(mac) under one outcome of the lookup: the returned tuple, or
\* the exception leaving the function.
analyze_mac(mac, outcome) ==
    LET first_octet == int16(split(mac, ":")[1])
        is_unicast  == BitAnd(first_octet, 1) = 0
        is_global   == BitAnd(first_octet, 2) = 0
    IN  IF outcome = "vendor"
        THEN [raised |-> FALSE, is_unicast |-> is_unicast,
              is_global |-> is_global, vendor |-> Acme]
        ELSE IF outcome \in CaughtByExcept
        THEN [raised |-> FALSE, is_unicast |-> is_unicast,
              is_global |-> is_global, vendor |-> Unknown]
        ELSE [raised |-> TRUE, is_unicast |-> is_unicast,
              is_global |-> is_global, vendor |-> None]

(***************************************************************************)
(* calculate_surface_size                                                  *)
(***************************************************************************)

min_width == 800

width_per_transition == 100

padding == 200

fixed_height == 400

Max(a, b) == IF a >= b THEN a ELSE b

Min(a, b) == IF a <= b THEN a ELSE b

\* calculate_surface_size counting the digits only, not the colons
calculate_surface_size_digits_only(mac) ==
    LET transition_count == Len(remove(mac, ":"))
        base_width       == transition_count * width_per_transition
    IN  [width |-> Max(min_width, base_width) + padding, height |-> fixed_height]

calculate_surface_size(mac) ==
    LET transition_count == Len(remove(mac, ":")) + count(mac, ":")
        base_width       == transition_count * width_per_transition
    IN  [width |-> Max(min_width, base_width) + padding, height |-> fixed_height]

(***************************************************************************)
(* draw_nfa_diagram: the transition list, the spacing and the state loop   *)
(***************************************************************************)

min_spacing == 80

max_spacing == 120

margins == 200

start_x == 100

\* for i, octet in enumerate(mac.split(':')): extend(list(octet)); a colon
\* after the octets of index 0..4.  i is the 0-based index of octets[1].
RECURSIVE ExtendTransitions(_, _)
ExtendTransitions(octets, i) ==
    IF octets = << >> THEN << >>
    ELSE Head(octets) \o (IF i < 5 THEN <<":">> ELSE << >>)
         \o ExtendTransitions(Tail(octets), i + 1)

\* The transition list with "i <= 5" for "i < 5": a colon after every octet
RECURSIVE ExtendTransitionsThrough5(_, _)
ExtendTransitionsThrough5(octets, i) ==
    IF octets = << >> THEN << >>
    ELSE Head(octets) \o (IF i <= 5 THEN <<":">> ELSE << >>)
         \o ExtendTransitionsThrough5(Tail(octets), i + 1)

BuildTransitions_colon_after_last(mac) ==
    ExtendTransitionsThrough5(split(mac, ":"), 0)

BuildTransitions(mac) == ExtendTransitions(split(mac, ":"), 0)

\* The spacing without the outer min(max_spacing, ...)
Spacing_no_upper_clamp(width, num_states) ==
    LET available_width == width - margins
    IN  Max(min_spacing, available_width \div num_states)

\* spacing = min(max_spacing, max(min_spacing, available_width // num_states));
\* \div rounds towards minus infinity for a positive divisor, as // does.
Spacing(width, num_states) ==
    LET available_width == width - margins
    IN  Min(max_spacing, Max(min_spacing, available_width \div num_states))

\* for i in range(num_states + 1): the states drawn, in order, each with its
\* index, whether it is drawn as final, and its centre current_x.
DrawStates(num_states, spacing) ==
    [k \in 1..(num_states + 1) |->
        [i |-> k - 1, is_final |-> (k - 1 = num_states),
         x |-> start_x + (k - 1) * spacing]]

draw_nfa_diagram(surface, mac) ==
    LET transitions == BuildTransitions(mac)
        num_states  == Len(transitions)
        spacing     == Spacing(surface.width, num_states)
    IN  [transitions |-> transitions, num_states |-> num_states,
         spacing |-> spacing, y |-> surface.height \div 2,
         states |-> DrawStates(num_states, spacing)]

(***************************************************************************)
(* get_system_mac                                                          *)
(***************************************************************************)

\* The output of getmac / ifconfig as the function reads it: the utility
\* fails (any exception: None), or prints lines.  A line is kept when it
\* passes the platform's filter ('ether' in it, or a '-' and no "Device")
\* and then contributes one token; the first token that is a valid MAC wins.
RECURSIVE FirstValidToken(_)
FirstValidToken(lines) ==
    IF lines = << >> THEN None
    ELSE IF Head(lines).kept /\ is_valid_mac(Head(lines).token)
    THEN normalize_mac(Head(lines).token)
    ELSE FirstValidToken(Tail(lines))

get_system_mac(out) ==
    IF out.failed THEN None ELSE FirstValidToken(out.lines)

(***************************************************************************)
(* State                                                                   *)
(***************************************************************************)

VARIABLES
    \* main(): the interactive session
    pc,            \* where main() is blocked: an input() call, or over
    mac_input,     \* the last line read at the address prompt, stripped
    history,       \* the list of analysed addresses
    files,         \* the names passed to write_to_png, in order
    check_system,  \* the last answer to "Check your system's MAC address?"
    system_mac,    \* the last value get_system_mac() returned
    typed_at,      \* the positions of history appended by the typed branch
    probes,        \* the set of values get_system_mac() has returned so far
    analysis,      \* the last call of analyze_mac: the lookup's outcome, and
                   \* whether it raised or which vendor it returned
    \* one address taken through the functions, as main() chains them
    stage,         \* how far the address has got
    raw,           \* the string given to is_valid_mac
    valid,         \* what is_valid_mac returned
    mac,           \* what normalize_mac returned
    twin,          \* the normalised form of the previous spelling of the address
    result,        \* what analyze_mac returned
    surface,       \* the canvas handed to draw_nfa_diagram
    diagram        \* what draw_nfa_diagram laid out

sessionVars ==
    <<pc, mac_input, history, files, check_system, system_mac, typed_at,
      probes, analysis>>

pipelineVars == <<stage, raw, valid, mac, twin, result, surface, diagram>>

vars == <<sessionVars, pipelineVars>>

(***************************************************************************)
(* Bounds and the inputs the environment may give                          *)
(***************************************************************************)

\* The longest history a session is followed to.
MaxHistory == 3

\* The widest canvas draw_nfa_diagram is given.
MaxWidth == 2400

\* The largest step by which a canvas is widened between two drawings.
MaxWiden == 3

\* Lines typed at the address prompt.
LineColonA == <<"0", "0", ":", "1", "A", ":", "2", "B", ":", "3", "C", ":", "4", "D", ":", "5", "E">>

LinePaddedHyphenB == <<" ", " ", "0", "3", "-", "0", "0", "-", "5", "e", "-", "0", "0", "-", "0", "0", "-", "0", "1", " ">>

LineFiveGroups == <<"0", "0", ":", "1", "A", ":", "2", "B", ":", "3", "C", ":", "4", "D">>

LineQuit == <<"q", "u", "i", "t">>

LineQuitShouted == <<" ", "Q", "U", "I", "T">>

TypedLines ==
    {LineColonA, LinePaddedHyphenB, LineFiveGroups, LineQuit, LineQuitShouted}

\* Answers typed at the two yes/no prompts (lowered, not stripped).
Yes == <<"y", "e", "s">>

Answers == {Yes, <<"Y", "E", "S">>, <<"n", "o">>, <<" ", "y", "e", "s">>}

\* What the interface-listing utility may print.
TokenHyphenA == <<"0", "0", "-", "1", "A", "-", "2", "B", "-", "3", "C", "-", "4", "D", "-", "5", "E">>

TokenColonD == <<"0", "a", ":", "0", "0", ":", "2", "7", ":", "0", "0", ":", "0", "0", ":", "0", "b">>

TokenEthernet == <<"(", "E", "t", "h", "e", "r", "n", "e", "t", ")">>

SystemOutputs ==
    {[failed |-> TRUE, lines |-> << >>],
     [failed |-> FALSE, lines |-> << >>],
     [failed |-> FALSE, lines |-> <<[kept |-> TRUE, token |-> TokenEthernet]>>],
     [failed |-> FALSE, lines |-> <<[kept |-> TRUE, token |-> TokenHyphenA]>>],
     [failed |-> FALSE, lines |-> <<[kept |-> FALSE, token |-> TokenHyphenA],
                                    [kept |-> TRUE, token |-> TokenEthernet],
                                    [kept |-> TRUE, token |-> TokenColonD]>>]}

(***************************************************************************)
(* main(): the session                                                     *)
(***************************************************************************)

Quit_ == <<"q", "u", "i", "t">>

Range(s) == {s[i] : i \in 1..Len(s)}

\* The file name formatted from the length before the append
automaton_filename_before_append(h) ==
    <<"m", "a", "c", "_", "a", "u", "t", "o", "m", "a", "t", "o", "n", "_">>
        \o str(Len(h) - 1) \o <<".", "p", "n", "g">>

\* f"mac_automaton_{len(history)}.png"
automaton_filename(h) ==
    <<"m", "a", "c", "_", "a", "u", "t", "o", "m", "a", "t", "o", "n", "_">> \o str(Len(h)) \o <<".", "p", "n", "g">>

system_filename == <<"m", "a", "c", "_", "a", "u", "t", "o", "m", "a", "t", "o", "n", "_", "s", "y", "s", "t", "e", "m", ".", "p", "n", "g">>

NoAnalysis == [outcome |-> "none", raised |-> FALSE, vendor |-> None]

SessionInit ==
    /\ pc = "mac_prompt"
    /\ mac_input = None
    /\ history = << >>
    /\ files = << >>
    /\ check_system = None
    /\ system_mac = None
    /\ typed_at = {}
    /\ probes = {}
    /\ analysis = NoAnalysis

\* The pipeline variables while a session runs: unused.
PipelineIdle ==
    /\ stage = "idle"
    /\ raw = None
    /\ valid = FALSE
    /\ mac = None
    /\ twin = None
    /\ result = None
    /\ surface = None
    /\ diagram = None

\* mac_input.lower() == 'quit': break, print the history, return.
Quit(line) ==
    /\ pc = "mac_prompt"
    /\ mac_input' = strip(line)
    /\ lower(mac_input') = Quit_
    /\ pc' = "done"
    /\ UNCHANGED <<history, files, check_system, system_mac, typed_at, probes,
                   analysis, pipelineVars>>

\* The rejection placed after history.append(mac)
RejectInvalid_after_append(line) ==
    /\ pc = "mac_prompt"
    /\ Len(history) < MaxHistory
    /\ mac_input' = strip(line)
    /\ lower(mac_input') # <<"q", "u", "i", "t">>
    /\ ~is_valid_mac(mac_input')
    /\ history' = Append(history, normalize_mac(mac_input'))
    /\ pc' = "mac_prompt"
    /\ UNCHANGED <<files, check_system, system_mac, typed_at, probes,
                   analysis, stage, raw, valid, mac, twin, result, surface,
                   diagram>>

\* not is_valid_mac(mac_input): print the complaint, continue.
RejectInvalid(line) ==
    /\ pc = "mac_prompt"
    /\ mac_input' = strip(line)
    /\ lower(mac_input') # Quit_
    /\ ~is_valid_mac(mac_input')
    /\ pc' = "mac_prompt"
    /\ UNCHANGED <<history, files, check_system, system_mac, typed_at, probes,
                   analysis, pipelineVars>>

\* A valid address: normalise, append, analyse, size, draw, write the file,
\* and block at the system-MAC prompt.  An exception leaving analyze_mac
\* leaves main() too: the append has happened, the write has not.
AnalyzeTyped(line) ==
    /\ pc = "mac_prompt"
    /\ Len(history) < MaxHistory
    /\ mac_input' = strip(line)
    /\ lower(mac_input') # Quit_
    /\ is_valid_mac(mac_input')
    /\ history' = Append(history, normalize_mac(mac_input'))
    /\ typed_at' = typed_at \cup {Len(history')}
    /\ \E outcome \in LookupOutcomes :
          LET r == analyze_mac(history'[Len(history')], outcome)
          IN  /\ analysis' = [outcome |-> outcome, raised |-> r.raised,
                              vendor |-> r.vendor]
              /\ IF r.raised
                 THEN /\ pc' = "crashed"
                      /\ files' = files
                 ELSE /\ pc' = "check_prompt"
                      /\ files' = Append(files, automaton_filename(history'))
    /\ UNCHANGED <<check_system, system_mac, probes, pipelineVars>>

\* check_system != 'yes': back to the address prompt.
DeclineCheck(answer) ==
    /\ pc = "check_prompt"
    /\ check_system' = lower(answer)
    /\ check_system' # Yes
    /\ pc' = "mac_prompt"
    /\ UNCHANGED <<mac_input, history, files, system_mac, typed_at, probes,
                   analysis, pipelineVars>>

\* check_system == 'yes': get_system_mac(), then "Could not determine",
\* "Already analyzed this MAC.", or the prompt "Analyze this MAC?".
CheckSystem(answer, out) ==
    /\ pc = "check_prompt"
    /\ check_system' = lower(answer)
    /\ check_system' = Yes
    /\ system_mac' = get_system_mac(out)
    /\ probes' = probes \cup {system_mac'}
    /\ pc' = IF Truthy(system_mac') /\ system_mac' \notin Range(history)
             THEN "analyze_prompt"
             ELSE "mac_prompt"
    /\ UNCHANGED <<mac_input, history, files, typed_at, analysis, pipelineVars>>

\* analyze != 'yes': back to the address prompt.
DeclineAnalyze(answer) ==
    /\ pc = "analyze_prompt"
    /\ lower(answer) # Yes
    /\ pc' = "mac_prompt"
    /\ UNCHANGED <<mac_input, history, files, check_system, system_mac,
                   typed_at, probes, analysis, pipelineVars>>

\* The system branch without history.append(system_mac)
AnalyzeSystem_without_append(answer) ==
    /\ pc = "analyze_prompt"
    /\ lower(answer) = <<"y", "e", "s">>
    /\ \E outcome \in LookupOutcomes :
          LET r == analyze_mac(system_mac, outcome)
          IN  /\ analysis' = [outcome |-> outcome, raised |-> r.raised,
                              vendor |-> r.vendor]
              /\ IF r.raised
                 THEN /\ pc' = "crashed"
                      /\ files' = files
                 ELSE /\ pc' = "mac_prompt"
                      /\ files' = Append(files, system_filename)
    /\ UNCHANGED <<mac_input, history, check_system, system_mac, typed_at,
                   probes, stage, raw, valid, mac, twin, result, surface,
                   diagram>>

\* analyze == 'yes': append the system MAC, analyse, size, draw, write
\* mac_automaton_system.png.
AnalyzeSystem(answer) ==
    /\ pc = "analyze_prompt"
    /\ Len(history) < MaxHistory
    /\ lower(answer) = Yes
    /\ history' = Append(history, system_mac)
    /\ \E outcome \in LookupOutcomes :
          LET r == analyze_mac(system_mac, outcome)
          IN  /\ analysis' = [outcome |-> outcome, raised |-> r.raised,
                              vendor |-> r.vendor]
              /\ IF r.raised
                 THEN /\ pc' = "crashed"
                      /\ files' = files
                 ELSE /\ pc' = "mac_prompt"
                      /\ files' = Append(files, system_filename)
    /\ UNCHANGED <<mac_input, check_system, system_mac, typed_at, probes,
                   pipelineVars>>

Init == SessionInit /\ PipelineIdle

Next ==
    \/ \E line \in TypedLines : Quit(line)
    \/ \E line \in TypedLines : RejectInvalid(line)
    \/ \E line \in TypedLines : AnalyzeTyped(line)
    \/ \E answer \in Answers : DeclineCheck(answer)
    \/ \E answer \in Answers, out \in SystemOutputs : CheckSystem(answer, out)
    \/ \E answer \in Answers : DeclineAnalyze(answer)
    \/ \E answer \in Answers : AnalyzeSystem(answer)

Spec == Init /\ [][Next]_vars

(***************************************************************************)
(* One address through the functions: the strings tried                    *)
(***************************************************************************)

\* Twelve digits written as six pairs with the five given separators.
Spell(d, seps) ==
    [i \in 1..17 |->
        IF i % 3 = 0 THEN seps[i \div 3] ELSE d[i - (i \div 3)]]

\* Twelve digits written as three dotted groups of four.
SpellDotted(d) ==
    [i \in 1..14 |-> IF i % 5 = 0 THEN "." ELSE d[i - (i \div 5)]]

AllColons == <<":", ":", ":", ":", ":">>

AllHyphens == <<"-", "-", "-", "-", "-">>

MixedSeparators == {<<":", "-", ":", "-", ":">>, <<"-", "-", ":", ":", ":">>}

\* The accepted spellings of twelve digits.
Spellings(d) ==
    {Spell(d, seps) : seps \in {AllColons, AllHyphens} \cup MixedSeparators}
        \cup {SpellDotted(d), d}

\* Digit strings whose first octet takes every low digit in both cases, under
\* three high digits, before two different tails.
DigitTails ==
    {<<"1", "A", "2", "b", "3", "C", "4", "d", "5", "E">>,
     <<"f", "f", "0", "0", "F", "F", "9", "e", "7", "D">>}

RichDigits ==
    {<<high, low>> \o tail :
        high \in {"0", "a", "F"}, low \in HexDigit, tail \in DigitTails}

\* Two digit strings whose spellings are damaged by one edit.
BaseDigits ==
    {<<"0", "0", "1", "A", "2", "b", "3", "C", "4", "d", "5", "E">>,
     <<"F", "e", "9", "a", "0", "0", "f", "f", "B", "C", "1", "3">>}

\* The characters an edit inserts or substitutes: a hex digit, a letter that
\* is none, each separator, a newline, a blank.
EditChars == {"7", "g", ":", "-", ".", "\n", " "}

Insert(s, i, c) == SubSeq(s, 1, i) \o <<c>> \o SubSeq(s, i + 1, Len(s))

Delete(s, i) == SubSeq(s, 1, i - 1) \o SubSeq(s, i + 1, Len(s))

Replace(s, i, c) == [s EXCEPT ![i] = c]

OneEdit(s) ==
    {Insert(s, i, c) : i \in 0..Len(s), c \in EditChars}
        \cup {Delete(s, i) : i \in 1..Len(s)}
        \cup {Replace(s, i, c) : i \in 1..Len(s), c \in EditChars}

\* Strings further from the accepted shapes.
OtherStrings ==
    {<< >>,
     <<"q", "u", "i", "t">>,
     <<"0", "0", ":", "1", "A", ":", "2", "B", ":", "3", "C", ":", "4", "D">>,
     <<"0", "0", ":", "1", "A", ":", "2", "B", ":", "3", "C", ":", "4", "D", ":", "5", "E", ":", "6", "F">>,
     <<"0", "0", "1", "A", ":", "2", "B", "3", "C", ":", "4", "D", "5", "E">>,
     <<"0", "0", ".", "1", "A", ".", "2", "B", ".", "3", "C", ".", "4", "D", ".", "5", "E">>,
     <<"0", "0", "1", "A", "2", "B", "3", "C", "4", "D", "5", "E", "\n", "\n">>,
     <<"0", "0", ":", "1", "A", ":", "2", "B", ":", "3", "C", ":", "4", "D", ":", "5", "E", "\n", "\n">>,
     <<"0", "0", "1", "A", ".", "2", "B", "3", "C", ".", "4", "D", "5", "E", "\n", " ">>,
     <<"0", "x", "1", "A", "2", "B", "3", "C", "4", "D", "5", "E">>}

Inputs ==
    UNION {Spellings(d) : d \in RichDigits}
        \cup UNION {UNION {OneEdit(s) : s \in Spellings(d)} : d \in BaseDigits}
        \cup OtherStrings

\* The other ways of writing the digits a string carries: each accepted
\* syntax, in upper case, in lower case and in the case typed.
Respellings(s) ==
    LET d == SelectSeq(s, LAMBDA c : c \in HexDigit)
    IN  IF Len(d) # 12 THEN {}
        ELSE UNION {{Spell(e, AllColons), Spell(e, AllHyphens), SpellDotted(e), e} :
                        e \in {d, upper(d), lower(d)}}

(***************************************************************************)
(* One address through the functions, in the order main() calls them       *)
(***************************************************************************)

PipelineInit ==
    /\ stage = "input"
    /\ raw \in Inputs
    /\ valid = FALSE
    /\ mac = None
    /\ twin = None
    /\ result = None
    /\ surface = None
    /\ diagram = None

\* if not is_valid_mac(mac_input): ... continue
Validate ==
    /\ stage = "input"
    /\ valid' = is_valid_mac(raw)
    /\ stage' = IF valid' THEN "validated" ELSE "rejected"
    /\ UNCHANGED <<raw, mac, twin, result, surface, diagram, sessionVars>>

\* mac = normalize_mac(mac_input)
Normalize ==
    /\ stage = "validated"
    /\ mac' = normalize_mac(raw)
    /\ stage' = "normalized"
    /\ UNCHANGED <<raw, valid, twin, result, surface, diagram, sessionVars>>

\* is_unicast, is_global, vendor = analyze_mac(mac)
Analyze ==
    /\ stage = "normalized"
    /\ \E outcome \in LookupOutcomes :
          /\ result' = analyze_mac(mac, outcome)
          /\ stage' = IF result'.raised THEN "aborted" ELSE "analyzed"
    /\ UNCHANGED <<raw, valid, mac, twin, surface, diagram, sessionVars>>

\* width, height = calculate_surface_size(mac); surface = ImageSurface(...)
Size ==
    /\ stage = "analyzed"
    /\ surface' = calculate_surface_size(mac)
    /\ stage' = "sized"
    /\ UNCHANGED <<raw, valid, mac, twin, result, diagram, sessionVars>>

\* draw_nfa_diagram(surface, mac, is_unicast, is_global, vendor)
Draw ==
    /\ stage = "sized"
    /\ diagram' = draw_nfa_diagram(surface, mac)
    /\ stage' = "drawn"
    /\ UNCHANGED <<raw, valid, mac, twin, result, surface, sessionVars>>

\* The same address is given again, written another way; its normalised
\* form so far is kept in twin.
Respell ==
    /\ stage = "drawn"
    /\ raw' \in Respellings(raw) \ {raw}
    /\ twin' = mac
    /\ stage' = "input"
    /\ valid' = FALSE
    /\ mac' = None
    /\ result' = None
    /\ surface' = None
    /\ diagram' = None
    /\ UNCHANGED sessionVars

PipelineNext ==
    \/ Validate
    \/ Normalize
    \/ Analyze
    \/ Size
    \/ Draw
    \/ Respell

InitPipeline == PipelineInit /\ SessionInit

SpecPipeline == InitPipeline /\ [][PipelineNext]_vars

(***************************************************************************)
(* draw_nfa_diagram on canvases of every width                             *)
(***************************************************************************)

LayoutAddresses ==
    {<<"0", "0", ":", "1", "A", ":", "2", "B", ":", "3", "C", ":", "4", "D", ":", "5", "E">>,
     <<"0", "3", ":", "0", "0", ":", "5", "E", ":", "0", "0", ":", "0", "0", ":", "0", "1">>}

LayoutInit ==
    /\ stage = "sized"
    /\ mac \in LayoutAddresses
    /\ raw = mac
    /\ valid = TRUE
    /\ twin = None
    /\ result = analyze_mac(mac, "vendor")
    /\ surface \in [width : 0..MaxWidth, height : {fixed_height}]
    /\ diagram = None

\* The address is drawn again on a canvas up to MaxWiden wider.
Widen ==
    /\ stage = "drawn"
    /\ \E more \in 1..MaxWiden :
          /\ surface.width + more <= MaxWidth
          /\ surface' = [surface EXCEPT !.width = @ + more]
    /\ diagram' = draw_nfa_diagram(surface', mac)
    /\ UNCHANGED <<stage, raw, valid, mac, twin, result, sessionVars>>

LayoutNext ==
    \/ Draw
    \/ Widen

InitLayout == LayoutInit /\ SessionInit

SpecLayout == InitLayout /\ [][LayoutNext]_vars

(***************************************************************************)
(* Properties                                                              *)
(***************************************************************************)

\* The hex digits a string carries, in order.
HexDigitsOf(s) == SelectSeq(s, LAMBDA c : c \in HexDigit)

UpperHexDigit ==
    {"0", "1", "2", "3", "4", "5", "6", "7", "8", "9", "A", "B", "C", "D", "E", "F"}

\* Shape (a): six groups of 2 hex digits separated by ':' or '-'.
ShapeSixGroups(s) ==
    /\ Len(s) = 17
    /\ \A i \in 1..17 :
          IF i \in {3, 6, 9, 12, 15} THEN s[i] \in {":", "-"} ELSE s[i] \in HexDigit

\* Shape (b): three groups of 4 hex digits separated by '.'.
ShapeThreeGroups(s) ==
    /\ Len(s) = 14
    /\ \A i \in 1..14 :
          IF i \in {5, 10} THEN s[i] = "." ELSE s[i] \in HexDigit

\* Shape (c): 12 hex digits and nothing else.
ShapeBare(s) ==
    /\ Len(s) = 12
    /\ \A i \in 1..12 : s[i] \in HexDigit

HasAcceptedShape(s) == ShapeSixGroups(s) \/ ShapeThreeGroups(s) \/ ShapeBare(s)

\* The stages at which is_valid_mac has answered.
Validated == stage \in {"validated", "rejected", "normalized", "analyzed",
                        "aborted", "sized", "drawn"}

\* The stages at which normalize_mac has answered.
Normalized == stage \in {"normalized", "analyzed", "aborted", "sized", "drawn"}

\* C1: is_valid_mac(s) is true if and only if the whole string s is six
\* ':'/'-' separated groups of 2 hex digits, three '.' separated groups of 4
\* hex digits, or 12 hex digits; a shape followed or preceded by any extra
\* character (a trailing newline included) is rejected.
C1_AcceptsExactlyTheThreeShapes ==
    Validated => (valid <=> HasAcceptedShape(raw))

\* What the code accepts: the three shapes, each also with one newline after it.
C1_AcceptsShapesAndOneTrailingNewline ==
    Validated =>
        (valid <=>
            \/ HasAcceptedShape(raw)
            \/ /\ raw # << >>
               /\ raw[Len(raw)] = "\n"
               /\ HasAcceptedShape(SubSeq(raw, 1, Len(raw) - 1)))

\* m is XX:XX:XX:XX:XX:XX with the 12 hex digits of s, in order, in upper case.
IsCanonicalOf(m, s) ==
    LET d == HexDigitsOf(s)
    IN  /\ Len(d) = 12
        /\ Len(m) = 17
        /\ \A i \in 1..17 :
              IF i \in {3, 6, 9, 12, 15}
              THEN m[i] = ":"
              ELSE /\ m[i] \in UpperHexDigit
                   /\ HexValue(m[i]) = HexValue(d[i - (i \div 3)])

\* C2: for every input is_valid_mac accepts, normalize_mac returns
\* XX:XX:XX:XX:XX:XX, 6 colon-separated octets of 2 uppercase hex digits, the
\* 12 digits in their original order; and two accepted inputs that carry the
\* same 12 digits up to case, in whatever syntax, normalise to the same string.
C2_NormalizeIsCanonical ==
    Normalized =>
        /\ IsCanonicalOf(mac, raw)
        /\ twin # None => mac = twin

\* An accepted dotted spelling with a lower-case digit, normalised after
\* another spelling of the same digits was.
C2_Witness ==
    /\ stage = "normalized"
    /\ twin # None
    /\ "." \in Range(raw)
    /\ \E i \in 1..Len(raw) : raw[i] \in {"a", "b", "c", "d", "e", "f"}

\* C3: for a normalised MAC the transition list has exactly 17 symbols, colons
\* at the (0-based) indices 2, 5, 8, 11, 14 and nowhere else, every other
\* symbol the corresponding hex digit of the address in order; the drawing
\* loop visits the 18 states 0..17, and only state 17 is final.
C3_SeventeenSymbolsEighteenStates ==
    stage = "drawn" =>
        LET t == diagram.transitions
            d == HexDigitsOf(mac)
        IN  /\ Len(t) = 17
            /\ diagram.num_states = 17
            /\ \A i \in 0..16 : (t[i + 1] = ":") <=> (i \in {2, 5, 8, 11, 14})
            /\ \A i \in 0..16 :
                  i \notin {2, 5, 8, 11, 14} => t[i + 1] = d[i - (i \div 3) + 1]
            /\ Len(diagram.states) = 18
            /\ \A k \in 1..18 :
                  /\ diagram.states[k].i = k - 1
                  /\ diagram.states[k].is_final <=> (k - 1 = 17)

\* A diagram drawn for an address typed in the dotted syntax.
C3_Witness ==
    /\ stage = "drawn"
    /\ "." \in Range(raw)
    /\ diagram.states[18].is_final

\* C4: analyze_mac returns unicast = true exactly when bit 0 of the first
\* octet is 0, and global = true exactly when bit 1 of the first octet is 0,
\* whatever the other bits, the other octets and the vendor lookup do.
C4_FlagsAreTheTwoLowBits ==
    (stage \in {"analyzed", "sized", "drawn"}) =>
        LET low == HexValue(mac[2])
        IN  /\ result.is_unicast <=> (low % 2 = 0)
            /\ result.is_global <=> ((low \div 2) % 2 = 0)

\* A multicast, locally administered address (first octet F3) whose vendor
\* was not found.
C4_Witness ==
    /\ stage = "analyzed"
    /\ mac[1] = "F"
    /\ mac[2] = "3"
    /\ ~result.is_unicast
    /\ ~result.is_global
    /\ result.vendor = Unknown

\* C5: at the address prompt, an input that is not the quit command and that
\* is_valid_mac rejects leaves the session as it was: the same history, no
\* file written, no analysis, no system-MAC prompt, and the loop prompts for
\* the next address.
C5_InvalidInputChangesNothing ==
    [][(/\ pc = "mac_prompt"
        /\ lower(mac_input') # Quit_
        /\ ~is_valid_mac(mac_input'))
       => /\ pc' = "mac_prompt"
          /\ UNCHANGED <<history, files, typed_at, analysis, check_system,
                         system_mac, probes>>]_vars

\* A rejected line read after an address was analysed and its file written.
C5_Witness ==
    /\ pc = "mac_prompt"
    /\ mac_input = LineFiveGroups
    /\ Len(history) = 2
    /\ Len(files) = 2

\* C6: however the vendor lookup fails (not found, malformed key, any other
\* failure of creating or calling it), analyze_mac returns with vendor
\* "Unknown": a lookup failure never aborts the analysis or the session.
C6_LookupFailureNeverAborts ==
    /\ pc # "crashed"
    /\ analysis.outcome \in LookupFailures =>
          /\ ~analysis.raised
          /\ analysis.vendor = Unknown

\* How often a name was passed to write_to_png.
Writes(name) == Cardinality({k \in 1..Len(files) : files[k] = name})

\* mac_automaton_<n>.png
NumberedName(n) ==
    <<"m", "a", "c", "_", "a", "u", "t", "o", "m", "a", "t", "o", "n", "_">>
        \o str(n) \o <<".", "p", "n", "g">>

\* The typed address at position n of the history was analysed: main() did
\* not end inside its analyze_mac call.
TypedAndAnalysed(n) ==
    /\ n \in typed_at
    /\ ~(pc = "crashed" /\ n = Len(history))

\* C7: each typed address that was accepted and analysed wrote exactly one
\* file, mac_automaton_<n>.png with n its 1-based position in the history
\* (system-MAC entries counted); no other numbered file is written, so no
\* two typed analyses write the same name.
C7_OneNumberedFilePerTypedAddress ==
    /\ \A n \in 1..Len(history) :
          Writes(NumberedName(n)) = IF TypedAndAnalysed(n) THEN 1 ELSE 0
    /\ \A k \in 1..Len(files) :
          \/ files[k] = system_filename
          \/ \E n \in 1..Len(history) : files[k] = NumberedName(n)

\* A typed address analysed after a system MAC: it is third in the history
\* and wrote mac_automaton_3.png.
C7_Witness ==
    /\ Len(history) = 3
    /\ typed_at = {1, 3}
    /\ pc = "check_prompt"
    /\ Writes(NumberedName(3)) = 1
    /\ Writes(system_filename) = 1

\* C8 as stated: the spacing is the quotient (W - 200) / N itself, clamped
\* to [80, 120].
C8_SpacingIsExactQuotientClamped ==
    stage = "drawn" =>
        LET a  == surface.width - 200
            n  == diagram.num_states
            sp == diagram.spacing
        IN  /\ n = 17
            /\ a <= 80 * n => sp = 80
            /\ a >= 120 * n => sp = 120
            /\ (80 * n <= a /\ a <= 120 * n) => sp * n = a

\* C8: for every canvas width W and the 17-symbol automaton, the spacing is
\* (W - 200) / N rounded down to an integer and clamped to [80, 120]: never
\* below 80, never above 120, and non-decreasing in W.
C8_SpacingIsFloorQuotientClamped ==
    /\ [](stage = "drawn" =>
            LET a  == surface.width - 200
                n  == diagram.num_states
                sp == diagram.spacing
            IN  /\ n = 17
                /\ 80 <= sp /\ sp <= 120
                /\ a < 80 * n => sp = 80
                /\ a >= 120 * n => sp = 120
                /\ (80 * n <= a /\ a < 120 * n) =>
                      (sp * n <= a /\ a < (sp + 1) * n))
    /\ [][(stage = "drawn" /\ stage' = "drawn" /\ surface'.width >= surface.width)
          => diagram'.spacing >= diagram.spacing]_vars

\* A drawing whose spacing lies strictly inside the range and whose
\* available width is no multiple of 17.
C8_Witness ==
    /\ stage = "drawn"
    /\ diagram.spacing = 94
    /\ (surface.width - 200) % 17 = 5

\* C9: for a normalised MAC calculate_surface_size returns the width
\* max(800, 100 * 17) + 200 = 1900 and the height 400, and on that canvas
\* the available width per symbol, (1900 - 200) / 17, is at least 80: the
\* spacing is not held up by the minimum.
C9_CanvasIs1900By400 ==
    (stage \in {"sized", "drawn"}) =>
        /\ surface.width = 1900
        /\ surface.width = (IF 800 >= 100 * 17 THEN 800 ELSE 100 * 17) + 200
        /\ surface.height = 400
        /\ (surface.width - 200) \div 17 >= 80
        /\ stage = "drawn" => diagram.spacing = (surface.width - 200) \div 17

\* The diagram of an address drawn on the canvas sized for it.
C9_Witness ==
    /\ stage = "drawn"
    /\ valid
    /\ surface.width = 1900
    /\ diagram.spacing = 100

\* Discovery has returned one and the same address at every call so far.
SameAddressEveryTime ==
    /\ None \notin probes
    /\ \A a \in probes, b \in probes : a = b

\* C10: when discovery returns the same address every time,
\* mac_automaton_system.png is written at most once; the system MAC is in
\* the history once its file is written; and every later 'yes' to the
\* system-MAC prompt takes the "already analyzed" branch: no file written,
\* the history unchanged, back to the address prompt.
C10_SystemFileWrittenAtMostOnce ==
    /\ [](SameAddressEveryTime =>
            /\ Writes(system_filename) <= 1
            /\ Writes(system_filename) = 1 => probes \subseteq Range(history))
    /\ [][(/\ pc = "check_prompt"
           /\ check_system' = Yes
           /\ Writes(system_filename) = 1
           /\ SameAddressEveryTime')
          => /\ pc' = "mac_prompt"
             /\ UNCHANGED <<history, files>>]_vars

\* After the system MAC was analysed and its file written, a further typed
\* address and a further 'yes': discovery found the same address, and the
\* session is back at the address prompt.
C10_Witness ==
    /\ SameAddressEveryTime
    /\ probes # {}
    /\ Writes(system_filename) = 1
    /\ Len(history) = 3
    /\ typed_at = {1, 3}
    /\ pc = "mac_prompt"
    /\ check_system = Yes
    /\ Len(files) = 3

=============================================================================
